---- MODULE Spec2Model ----
(***************************************************************************)
(* Model of strings/src/main.rs: FheAscii / FheString, the data-oblivious  *)
(* string operators over radix ciphertexts.                                *)
(*                                                                         *)
(* A RadixCiphertext of NUM_BLOCKS blocks with MessageBits message bits    *)
(* each is modelled by the value it decrypts to, an integer modulo         *)
(* 2^(NUM_BLOCKS*MessageBits).  A plaintext string is a sequence of        *)
(* single-byte alphabet codes; an FheString is the sequence of its slots.  *)
(* Every operator also yields the sequence of engine primitives it calls   *)
(* and the return path it takes, which is what the server can observe.     *)
(***************************************************************************)
EXTENDS Integers, Sequences, FiniteSets, TLC

VARIABLES run, twin, log

vars == <<run, twin, log>>

(***************************************************************************)
(* Program constants                                                       *)
(***************************************************************************)
NUM_BLOCKS == 4

MessageBits == 2

ByteBits == 8

CaseBit == 32

Modulus == 2 ^ (NUM_BLOCKS * MessageBits)

(***************************************************************************)
(* Bounds of the model                                                     *)
(***************************************************************************)
MaxLen == 2

MaxOps == 2

MaxCaseLen == 1

MaxLongLen == 257

MaxOblLen == 1

(***************************************************************************)
(* Input alphabets: NUL, 'A', 'a' for string1 and NUL, 'a' for string2 in  *)
(* the general runs; every byte code for the case-conversion runs; 'A',    *)
(* 'a' for the two-run comparison.                                         *)
(***************************************************************************)
Alphabet == {0, 65, 97}

PatAlphabet == {0, 97}

ByteCodes == 0 .. (2 ^ ByteBits - 1)

OblAlphabet == {65, 97}

StringsOver(S, n) == UNION {[1 .. k -> S] : k \in 0 .. n}

(***************************************************************************)
(* Engine primitives (tfhe::integer ServerKey / RadixClientKey), by the    *)
(* value the result decrypts to.                                           *)
(***************************************************************************)
AsU8(c) == c % (2 ^ ByteBits)

ClientEncrypt(v) == v % Modulus

ClientDecrypt(ct) == ct % (2 ^ ByteBits)

CreateTrivialRadix(v) == v % Modulus

SmartScalarAdd(ct, k) == (ct + k) % Modulus

ScalarGt(ct, k) == IF ct > k THEN 1 ELSE 0

ScalarLt(ct, k) == IF ct < k THEN 1 ELSE 0

RECURSIVE BitAndBits(_, _, _)
BitAndBits(x, y, n) ==
    IF n = 0 THEN 0
    ELSE (x % 2) * (y % 2) + 2 * BitAndBits(x \div 2, y \div 2, n - 1)

SmartBitAnd(x, y) == BitAndBits(x, y, NUM_BLOCKS * MessageBits)

SmartScalarMul(ct, k) == (ct * k) % Modulus

SmartAdd(x, y) == (x + y) % Modulus

SmartSub(x, y) == (x + Modulus - y) % Modulus

SmartMul(x, y) == (x * y) % Modulus

SmartEq(x, y) == IF x = y THEN 1 ELSE 0

SmartScalarEq(ct, k) == IF ct = k THEN 1 ELSE 0

(***************************************************************************)
(* FheAscii                                                                *)
(***************************************************************************)
AsciiEncrypt(c) == ClientEncrypt(AsU8(c))

AsciiDecrypt(block) == ClientDecrypt(block)

\* Number of bytes the decrypted char takes in the UTF-8 String.
Utf8Len(c) == IF c < 128 THEN 1 ELSE 2

(***************************************************************************)
(* FheString::encrypt / decrypt                                            *)
(***************************************************************************)
EncryptString(string) ==
    [i \in 1 .. Len(string) |-> AsciiEncrypt(string[i])] \o <<AsciiEncrypt(0)>>

\* Variant: the final character is not removed.
DecryptStringKeepsLast(blocks) ==
    [panic |-> FALSE, str |-> [i \in 1 .. Len(blocks) |-> AsciiDecrypt(blocks[i])]]

\* dec[..dec.len()-1]: the slice drops the last byte; it panics on an empty
\* String and when that byte is not a whole character.
DecryptString(blocks) ==
    LET dec == [i \in 1 .. Len(blocks) |-> AsciiDecrypt(blocks[i])]
    IN  IF Len(dec) = 0 \/ Utf8Len(dec[Len(dec)]) # 1
        THEN [panic |-> TRUE, str |-> <<>>]
        ELSE [panic |-> FALSE, str |-> SubSeq(dec, 1, Len(dec) - 1)]

(***************************************************************************)
(* Results of an operator call: the value the returned ciphertext decrypts *)
(* to, the engine primitives called in order, the return path taken, and   *)
(* the values the accumulator held after each fold step.  A decryption     *)
(* returns a String (str) or panics.                                       *)
(***************************************************************************)
Ret(val, trace, path, accs) ==
    [val |-> val, trace |-> trace, path |-> path, accs |-> accs,
     str |-> <<>>, panic |-> FALSE]

(***************************************************************************)
(* FheString::len / is_empty                                               *)
(***************************************************************************)
StrLen(blocks) ==
    LET length == CreateTrivialRadix(0)
    IN  Ret(SmartScalarAdd(length, Len(blocks) - 1),
            <<"create_trivial_radix", "smart_scalar_add_assign">>, "length", <<>>)

IsEmpty(blocks) ==
    LET length == StrLen(blocks)
    IN  Ret(SmartScalarEq(length.val, 0),
            length.trace \o <<"smart_scalar_eq">>, "eq", <<>>)

(***************************************************************************)
(* FheString::to_lower_assign_parallelized / to_upper_assign_parallelized  *)
(* One chunk is one slot; the closure runs once per slot.                  *)
(***************************************************************************)
LowerBoundGt == 64

LowerBoundLt == 91

UpperBoundGt == 96

UpperBoundLt == 123

\* Variant: the "code > 64" comparison is left out of the mask.
ToLowerChunkNoLowerBound(block) ==
    LET t2 == ScalarLt(block, LowerBoundLt)
        magnitude == SmartScalarMul(t2, CaseBit)
    IN  Ret(SmartAdd(block, magnitude),
            <<"scalar_lt", "smart_scalar_mul_assign", "smart_add_assign">>,
            "chunk", <<>>)

ToLowerChunk(block) ==
    LET t1 == ScalarGt(block, LowerBoundGt)
        t2 == ScalarLt(block, LowerBoundLt)
        mask == SmartBitAnd(t1, t2)
        magnitude == SmartScalarMul(mask, CaseBit)
    IN  Ret(SmartAdd(block, magnitude),
            <<"scalar_gt", "scalar_lt", "smart_bitand_assign",
              "smart_scalar_mul_assign", "smart_add_assign">>, "chunk", <<>>)

\* Variant: the lower bound of the folded range is off by one (>= 96).
ToUpperChunkOffByOne(block) ==
    LET t1 == ScalarGt(block, UpperBoundGt - 1)
        t2 == ScalarLt(block, UpperBoundLt)
        mask == SmartBitAnd(t1, t2)
        magnitude == SmartScalarMul(mask, CaseBit)
    IN  Ret(SmartSub(block, magnitude),
            <<"scalar_gt", "scalar_lt", "smart_bitand_assign",
              "smart_scalar_mul_assign", "smart_sub_assign">>, "chunk", <<>>)

ToUpperChunk(block) ==
    LET t1 == ScalarGt(block, UpperBoundGt)
        t2 == ScalarLt(block, UpperBoundLt)
        mask == SmartBitAnd(t1, t2)
        magnitude == SmartScalarMul(mask, CaseBit)
    IN  Ret(SmartSub(block, magnitude),
            <<"scalar_gt", "scalar_lt", "smart_bitand_assign",
              "smart_scalar_mul_assign", "smart_sub_assign">>, "chunk", <<>>)

RECURSIVE Flatten(_)
Flatten(seqs) ==
    IF seqs = <<>> THEN <<>> ELSE Head(seqs) \o Flatten(Tail(seqs))

ToLowerAssign(blocks) ==
    [blocks |-> [i \in 1 .. Len(blocks) |-> ToLowerChunk(blocks[i]).val],
     trace  |-> Flatten([i \in 1 .. Len(blocks) |-> ToLowerChunk(blocks[i]).trace])]

ToUpperAssign(blocks) ==
    [blocks |-> [i \in 1 .. Len(blocks) |-> ToUpperChunk(blocks[i]).val],
     trace  |-> Flatten([i \in 1 .. Len(blocks) |-> ToUpperChunk(blocks[i]).trace])]

(***************************************************************************)
(* FheString::equals / equals_plain: both iterators advance in lockstep;   *)
(* i is the number of items already taken from each.                       *)
(***************************************************************************)
RECURSIVE EqualsLoop(_, _, _, _, _, _)
EqualsLoop(blocks1, blocks2, i, res, trace, accs) ==
    IF i < Len(blocks1) /\ i < Len(blocks2)
    THEN LET temp == SmartEq(blocks1[i + 1], blocks2[i + 1])
             acc == SmartMul(res, temp)
         IN  EqualsLoop(blocks1, blocks2, i + 1, acc,
                        trace \o <<"smart_eq", "smart_mul_assign">>,
                        Append(accs, acc))
    ELSE IF i >= Len(blocks1) /\ i >= Len(blocks2)
    THEN Ret(res, trace, "res", accs)
    ELSE Ret(CreateTrivialRadix(0), trace \o <<"create_trivial_radix">>,
             "trivial0", accs)

\* Variant: the accumulator is returned as soon as either iterator ends.
EqualsIgnoresLength(blocks1, blocks2) ==
    LET n == IF Len(blocks1) < Len(blocks2) THEN Len(blocks1) ELSE Len(blocks2)
    IN  EqualsLoop(SubSeq(blocks1, 1, n), SubSeq(blocks2, 1, n), 0,
                   CreateTrivialRadix(1), <<"create_trivial_radix">>, <<>>)

Equals(blocks1, blocks2) ==
    EqualsLoop(blocks1, blocks2, 0, CreateTrivialRadix(1),
               <<"create_trivial_radix">>, <<>>)

RECURSIVE EqualsPlainLoop(_, _, _, _, _, _)
EqualsPlainLoop(blocks1, string, i, res, trace, accs) ==
    IF i < Len(blocks1) /\ i < Len(string)
    THEN LET temp == SmartScalarEq(blocks1[i + 1], string[i + 1])
             acc == SmartMul(res, temp)
         IN  EqualsPlainLoop(blocks1, string, i + 1, acc,
                             trace \o <<"smart_scalar_eq", "smart_mul_assign">>,
                             Append(accs, acc))
    ELSE IF i >= Len(blocks1) /\ i >= Len(string)
    THEN Ret(res, trace, "res", accs)
    ELSE Ret(CreateTrivialRadix(0), trace \o <<"create_trivial_radix">>,
             "trivial0", accs)

EqualsPlain(blocks1, string) ==
    EqualsPlainLoop(blocks1, string, 0, CreateTrivialRadix(1),
                    <<"create_trivial_radix">>, <<>>)

NotEquals(blocks1, blocks2) ==
    LET one == CreateTrivialRadix(1)
        eq == Equals(blocks1, blocks2)
    IN  Ret(SmartSub(one, eq.val),
            <<"create_trivial_radix">> \o eq.trace \o <<"smart_sub">>,
            eq.path, eq.accs)

NotEqualsPlain(blocks1, string) ==
    LET one == CreateTrivialRadix(1)
        eq == EqualsPlain(blocks1, string)
    IN  Ret(SmartSub(one, eq.val),
            <<"create_trivial_radix">> \o eq.trace \o <<"smart_sub">>,
            eq.path, eq.accs)

(***************************************************************************)
(* FheString::concat_assign                                                *)
(***************************************************************************)
\* Variant: self's terminator slot is dropped before appending.
ConcatAssignDropsTerminator(blocks1, blocks2) ==
    SubSeq(blocks1, 1, Len(blocks1) - 1) \o blocks2

ConcatAssign(blocks1, blocks2) == blocks1 \o blocks2

(***************************************************************************)
(* FheString::starts_with / starts_with_plain: j items were taken from the *)
(* pattern iterator (iter2) and i from self's (iter1); peek() looks at     *)
(* pattern item j + 2 without taking it.                                   *)
(***************************************************************************)
RECURSIVE StartsWithLoop(_, _, _, _, _, _, _)
StartsWithLoop(blocks1, blocks2, i, j, res, trace, accs) ==
    IF j < Len(blocks2)
    THEN IF j + 1 < Len(blocks2)
         THEN IF i < Len(blocks1)
              THEN LET temp == SmartEq(blocks2[j + 1], blocks1[i + 1])
                       acc == SmartMul(res, temp)
                   IN  StartsWithLoop(blocks1, blocks2, i + 1, j + 1, acc,
                                      trace \o <<"smart_eq", "smart_mul_assign">>,
                                      Append(accs, acc))
              ELSE Ret(CreateTrivialRadix(0), trace \o <<"create_trivial_radix">>,
                       "self_exhausted", accs)
         ELSE Ret(res, trace, "res", accs)
    ELSE Ret(CreateTrivialRadix(0), trace \o <<"create_trivial_radix">>,
             "pattern_exhausted", accs)

\* Variant: no look-ahead, so the pattern's terminator slot is compared too.
StartsWithNoPeek(blocks1, blocks2) ==
    StartsWithLoop(blocks1, Append(blocks2, 0), 0, 0, CreateTrivialRadix(1),
                   <<"create_trivial_radix">>, <<>>)

StartsWith(blocks1, blocks2) ==
    StartsWithLoop(blocks1, blocks2, 0, 0, CreateTrivialRadix(1),
                   <<"create_trivial_radix">>, <<>>)

RECURSIVE StartsWithPlainLoop(_, _, _, _, _, _, _)
StartsWithPlainLoop(blocks1, string, i, j, res, trace, accs) ==
    IF j < Len(string)
    THEN IF j + 1 < Len(string)
         THEN IF i < Len(blocks1)
              THEN LET temp == SmartScalarEq(blocks1[i + 1], string[j + 1])
                       acc == SmartMul(res, temp)
                   IN  StartsWithPlainLoop(blocks1, string, i + 1, j + 1, acc,
                                           trace \o <<"smart_scalar_eq", "smart_mul_assign">>,
                                           Append(accs, acc))
              ELSE Ret(CreateTrivialRadix(0), trace \o <<"create_trivial_radix">>,
                       "self_exhausted", accs)
         ELSE Ret(res, trace, "res", accs)
    ELSE Ret(CreateTrivialRadix(0), trace \o <<"create_trivial_radix">>,
             "pattern_exhausted", accs)

\* Variant: returns a trivial 0 at the first slot that differs.
StartsWithPlainEarlyExit(blocks1, string) ==
    LET full == StartsWithPlainLoop(blocks1, string, 0, 0, CreateTrivialRadix(1),
                                    <<"create_trivial_radix">>, <<>>)
    IN  IF \E i \in DOMAIN full.accs : full.accs[i] = 0
        THEN Ret(CreateTrivialRadix(0),
                 <<"create_trivial_radix", "create_trivial_radix">>, "mismatch", <<>>)
        ELSE full

StartsWithPlain(blocks1, string) ==
    StartsWithPlainLoop(blocks1, string, 0, 0, CreateTrivialRadix(1),
                        <<"create_trivial_radix">>, <<>>)

(***************************************************************************)
(* State.  run holds main's locals: the plaintexts string1 and string2,    *)
(* their encryptions enc_str1 and enc_str2, the operator called last (op)  *)
(* and what it returned (res).                                             *)
(* twin is a second execution driven through the same operator calls.      *)
(* log lists the in-place operators applied to enc_str1 since encryption.  *)
(***************************************************************************)
NoRet == Ret(0, <<>>, "client", <<>>)

MkRun(s1, s2) ==
    [string1  |-> s1,
     string2  |-> s2,
     enc_str1 |-> EncryptString(s1),
     enc_str2 |-> EncryptString(s2),
     op       |-> "encrypt",
     res      |-> NoRet]

DoDecrypt(r) ==
    LET d == DecryptString(r.enc_str1)
    IN  [r EXCEPT !.op = "decrypt",
                  !.res = [NoRet EXCEPT !.str = d.str, !.panic = d.panic]]

DoLen(r) == [r EXCEPT !.op = "len", !.res = StrLen(r.enc_str1)]

DoIsEmpty(r) == [r EXCEPT !.op = "is_empty", !.res = IsEmpty(r.enc_str1)]

DoToLower(r) ==
    LET t == ToLowerAssign(r.enc_str1)
    IN  [r EXCEPT !.op = "to_lower", !.enc_str1 = t.blocks,
                  !.res = Ret(0, t.trace, "self", <<>>)]

DoToUpper(r) ==
    LET t == ToUpperAssign(r.enc_str1)
    IN  [r EXCEPT !.op = "to_upper", !.enc_str1 = t.blocks,
                  !.res = Ret(0, t.trace, "self", <<>>)]

DoEquals(r) == [r EXCEPT !.op = "equals", !.res = Equals(r.enc_str1, r.enc_str2)]

DoEqualsPlain(r) ==
    [r EXCEPT !.op = "equals_plain", !.res = EqualsPlain(r.enc_str1, r.string2)]

DoNotEquals(r) ==
    [r EXCEPT !.op = "not_equals", !.res = NotEquals(r.enc_str1, r.enc_str2)]

DoNotEqualsPlain(r) ==
    [r EXCEPT !.op = "not_equals_plain",
              !.res = NotEqualsPlain(r.enc_str1, r.string2)]

DoConcat(r) ==
    [r EXCEPT !.op = "concat", !.enc_str1 = ConcatAssign(r.enc_str1, r.enc_str2),
              !.res = Ret(0, <<>>, "self", <<>>)]

DoStartsWith(r) ==
    [r EXCEPT !.op = "starts_with", !.res = StartsWith(r.enc_str1, r.enc_str2)]

DoStartsWithPlain(r) ==
    [r EXCEPT !.op = "starts_with_plain",
              !.res = StartsWithPlain(r.enc_str1, r.string2)]

(***************************************************************************)
(* Actions: one per operator call of main.                                 *)
(***************************************************************************)
DecryptStep ==
    /\ run' = DoDecrypt(run) /\ twin' = DoDecrypt(twin) /\ UNCHANGED log

LenStep ==
    /\ run' = DoLen(run) /\ twin' = DoLen(twin) /\ UNCHANGED log

IsEmptyStep ==
    /\ run' = DoIsEmpty(run) /\ twin' = DoIsEmpty(twin) /\ UNCHANGED log

ToLowerStep ==
    /\ Len(log) < MaxOps
    /\ run' = DoToLower(run) /\ twin' = DoToLower(twin)
    /\ log' = Append(log, "to_lower")

ToUpperStep ==
    /\ Len(log) < MaxOps
    /\ run' = DoToUpper(run) /\ twin' = DoToUpper(twin)
    /\ log' = Append(log, "to_upper")

ConcatStep ==
    /\ Len(log) < MaxOps
    /\ run' = DoConcat(run) /\ twin' = DoConcat(twin)
    /\ log' = Append(log, "concat")

EqualsStep ==
    /\ run' = DoEquals(run) /\ twin' = DoEquals(twin) /\ UNCHANGED log

EqualsPlainStep ==
    /\ run' = DoEqualsPlain(run) /\ twin' = DoEqualsPlain(twin) /\ UNCHANGED log

NotEqualsStep ==
    /\ run' = DoNotEquals(run) /\ twin' = DoNotEquals(twin) /\ UNCHANGED log

NotEqualsPlainStep ==
    /\ run' = DoNotEqualsPlain(run) /\ twin' = DoNotEqualsPlain(twin)
    /\ UNCHANGED log

StartsWithStep ==
    /\ run' = DoStartsWith(run) /\ twin' = DoStartsWith(twin) /\ UNCHANGED log

StartsWithPlainStep ==
    /\ run' = DoStartsWithPlain(run) /\ twin' = DoStartsWithPlain(twin)
    /\ UNCHANGED log

(***************************************************************************)
(* Spec: one execution (twin repeats it) over short strings.               *)
(***************************************************************************)
Init ==
    \E s1 \in StringsOver(Alphabet, MaxLen), s2 \in StringsOver(PatAlphabet, MaxLen) :
        /\ run = MkRun(s1, s2)
        /\ twin = run
        /\ log = <<>>

Next ==
    \/ DecryptStep
    \/ LenStep
    \/ IsEmptyStep
    \/ ToLowerStep
    \/ ToUpperStep
    \/ ConcatStep
    \/ EqualsStep
    \/ EqualsPlainStep
    \/ NotEqualsStep
    \/ NotEqualsPlainStep
    \/ StartsWithStep
    \/ StartsWithPlainStep

Spec == Init /\ [][Next]_vars

(***************************************************************************)
(* SpecCase: to_upper_assign then to_lower_assign on strings over every    *)
(* byte code.                                                              *)
(***************************************************************************)
InitCase ==
    \E s1 \in StringsOver(ByteCodes, MaxCaseLen) :
        /\ run = MkRun(s1, <<>>)
        /\ twin = run
        /\ log = <<>>

UpperFirst == log = <<>> /\ ToUpperStep

LowerSecond == log = <<"to_upper">> /\ ToLowerStep

NextCase ==
    \/ UpperFirst
    \/ LowerSecond

SpecCase == InitCase /\ [][NextCase]_vars

(***************************************************************************)
(* SpecLen: len and is_empty on long strings (only the slot count matters, *)
(* so every character is 'a').                                             *)
(***************************************************************************)
InitLen ==
    \E n \in 0 .. MaxLongLen :
        /\ run = MkRun([i \in 1 .. n |-> 97], <<>>)
        /\ twin = run
        /\ log = <<>>

NextLen ==
    \/ LenStep
    \/ IsEmptyStep

SpecLen == InitLen /\ [][NextLen]_vars

(***************************************************************************)
(* SpecObl: two executions whose operands have the same slot counts (and   *)
(* whose plaintext patterns have the same length) but any contents, driven *)
(* through the same operator calls.                                        *)
(***************************************************************************)
SameShape(s, t) == Len(s) = Len(t)

InitObl ==
    \E s1 \in StringsOver(OblAlphabet, MaxOblLen),
       t1 \in StringsOver(OblAlphabet, MaxOblLen),
       s2 \in StringsOver(OblAlphabet, MaxOblLen + 1),
       t2 \in StringsOver(OblAlphabet, MaxOblLen + 1) :
        /\ SameShape(s1, t1)
        /\ SameShape(s2, t2)
        /\ run = MkRun(s1, s2)
        /\ twin = MkRun(t1, t2)
        /\ log = <<>>

LowerOnce == log = <<>> /\ ToLowerStep

UpperOnce == log = <<>> /\ ToUpperStep

ConcatOnce == log = <<>> /\ ConcatStep

NextObl ==
    \/ LowerOnce
    \/ UpperOnce
    \/ ConcatOnce
    \/ EqualsStep
    \/ EqualsPlainStep
    \/ StartsWithStep
    \/ StartsWithPlainStep

SpecObl == InitObl /\ [][NextObl]_vars

(***************************************************************************)
(* Vocabulary of the properties                                            *)
(***************************************************************************)
Bit(b) == IF b THEN 1 ELSE 0

NoTerminator(s) == \A i \in DOMAIN s : s[i] # 0

IsPrefix(p, s) == Len(p) <= Len(s) /\ SubSeq(s, 1, Len(p)) = p

Min(a, b) == IF a < b THEN a ELSE b

IsLetter(c) == c \in 65 .. 90 \/ c \in 97 .. 122

AsciiLower(c) == IF c \in 65 .. 90 THEN c + 32 ELSE c

ReadOnlyOps ==
    {"len", "is_empty", "equals", "equals_plain", "not_equals",
     "not_equals_plain", "starts_with", "starts_with_plain"}

Fresh == log = <<>>

(***************************************************************************)
(* C1.  equals_plain(encrypt(s), p), for s and p without the terminator    *)
(* byte, decrypts to 1 exactly when s = p and to 0 otherwise.              *)
(***************************************************************************)
C1_EqualsPlainIffEqual ==
    (run.op = "equals_plain" /\ Fresh
        /\ NoTerminator(run.string1) /\ NoTerminator(run.string2))
    => run.res.val = Bit(run.string1 = run.string2)

(***************************************************************************)
(* C2.  starts_with_plain(encrypt(s), p), for s and p without the          *)
(* terminator byte, decrypts to 1 exactly when p is a prefix of s, the     *)
(* answer starts_with(encrypt(s), encrypt(p)) gives.                       *)
(***************************************************************************)
C2_StartsWithPlainIffPrefix ==
    (run.op = "starts_with_plain" /\ Fresh
        /\ NoTerminator(run.string1) /\ NoTerminator(run.string2))
    => /\ run.res.val = Bit(IsPrefix(run.string2, run.string1))
       /\ run.res.val = StartsWith(run.enc_str1, EncryptString(run.string2)).val

(***************************************************************************)
(* C3.  len(encrypt(s)) decrypts to the number of characters of s, for s   *)
(* of any length, without wrap-around.                                     *)
(***************************************************************************)
C3_LenIsCharCount ==
    (run.op = "len" /\ Fresh) => run.res.val = Len(run.string1)

(***************************************************************************)
(* C4.  equals(encrypt(a), encrypt(b)) decrypts to 1 exactly when a = b    *)
(* and to 0 otherwise; when the slot counts differ the result is the       *)
(* trivial 0; the accumulator is 0 or 1 after every fold step.             *)
(***************************************************************************)
C4_EqualsIffEqual ==
    run.op = "equals" =>
        /\ Fresh => run.res.val = Bit(run.string1 = run.string2)
        /\ Len(run.enc_str1) # Len(run.enc_str2)
              => run.res.path = "trivial0" /\ run.res.val = 0
        /\ \A i \in DOMAIN run.res.accs : run.res.accs[i] \in {0, 1}

C4_Witness ==
    /\ run.op = "equals" /\ Fresh
    /\ run.string1 = run.string2 /\ Len(run.string1) = MaxLen
    /\ run.res.val = 1 /\ Len(run.res.accs) = MaxLen + 1

(***************************************************************************)
(* C5.  starts_with(encrypt(a), encrypt(b)), for a and b without the       *)
(* terminator byte, decrypts to 1 exactly when b is a prefix of a: only    *)
(* the pattern's content slots are compared, an empty pattern gives 1 and  *)
(* a pattern longer than a gives 0.                                        *)
(***************************************************************************)
C5_StartsWithIffPrefix ==
    (run.op = "starts_with" /\ Fresh
        /\ NoTerminator(run.string1) /\ NoTerminator(run.string2))
    => /\ run.res.val = Bit(IsPrefix(run.string2, run.string1))
       /\ Len(run.res.accs) = Min(Len(run.string2), Len(run.string1) + 1)
       /\ run.string2 = <<>> => run.res.val = 1 /\ run.res.path = "res"
       /\ Len(run.string2) > Len(run.string1) => run.res.val = 0

C5_Witness ==
    /\ run.op = "starts_with" /\ Fresh
    /\ NoTerminator(run.string1) /\ NoTerminator(run.string2)
    /\ Len(run.string2) = 1 /\ Len(run.string1) = MaxLen
    /\ run.res.val = 1 /\ Len(run.res.accs) = 1

(***************************************************************************)
(* C6.  to_upper_assign then to_lower_assign keeps the slot count and      *)
(* yields the ASCII lower-casing: a letter slot ends as the lowercase      *)
(* letter, every other slot (the terminator too) keeps its value.          *)
(***************************************************************************)
C6_UpperThenLowerIsAsciiLower ==
    log = <<"to_upper", "to_lower">> =>
        LET before == EncryptString(run.string1)
        IN  /\ Len(run.enc_str1) = Len(before)
            /\ \A i \in DOMAIN before :
                  /\ run.enc_str1[i] = AsciiLower(before[i])
                  /\ ~IsLetter(before[i]) => run.enc_str1[i] = before[i]

C6_Witness ==
    /\ log = <<"to_upper", "to_lower">>
    /\ Len(run.string1) = MaxCaseLen
    /\ run.string1[1] = 90
    /\ run.enc_str1[1] = 122

(***************************************************************************)
(* C7.  decrypt(encrypt(s)) = s for s without the terminator byte: one     *)
(* slot per character in order, then one slot encrypting 0; decrypt        *)
(* returns every slot in order but the final one.                          *)
(***************************************************************************)
C7_DecryptEncryptRoundTrip ==
    (Fresh /\ NoTerminator(run.string1)) =>
        /\ Len(run.enc_str1) = Len(run.string1) + 1
        /\ run.enc_str1[Len(run.enc_str1)] = 0
        /\ \A i \in DOMAIN run.string1 : AsciiDecrypt(run.enc_str1[i]) = run.string1[i]
        /\ run.op = "decrypt" => ~run.res.panic /\ run.res.str = run.string1

C7_Witness ==
    /\ run.op = "decrypt" /\ Fresh
    /\ NoTerminator(run.string1) /\ Len(run.string1) = MaxLen
    /\ run.res.str = run.string1

(***************************************************************************)
(* C8.  After concat_assign on self = encrypt(a) and other = encrypt(b),   *)
(* self is its former slots followed by all of other's, other is           *)
(* unchanged, and decrypt yields a, the terminator character, then b.      *)
(***************************************************************************)
C8_ConcatKeepsEmbeddedTerminator ==
    log = <<"concat">> =>
        /\ run.enc_str1 = EncryptString(run.string1) \o EncryptString(run.string2)
        /\ Len(run.enc_str1) = (Len(run.string1) + 1) + (Len(run.string2) + 1)
        /\ run.enc_str2 = EncryptString(run.string2)
        /\ run.op = "decrypt" =>
              /\ ~run.res.panic
              /\ run.res.str = run.string1 \o <<0>> \o run.string2

C8_Witness ==
    /\ log = <<"concat">> /\ run.op = "decrypt"
    /\ Len(run.string1) = MaxLen /\ Len(run.string2) = MaxLen
    /\ NoTerminator(run.string1) /\ NoTerminator(run.string2)
    /\ run.res.str[MaxLen + 1] = 0

(***************************************************************************)
(* C9.  After any sequence of encrypt, to_lower_assign, to_upper_assign    *)
(* and concat_assign every string has at least one slot and its last slot  *)
(* decrypts to 0; the read-only operators change no slot of an operand.    *)
(***************************************************************************)
TerminatorLast(blocks) ==
    Len(blocks) >= 1 /\ AsciiDecrypt(blocks[Len(blocks)]) = 0

C9_TerminatorInvariant ==
    /\ [](TerminatorLast(run.enc_str1) /\ TerminatorLast(run.enc_str2))
    /\ [][run'.op \in ReadOnlyOps =>
            run'.enc_str1 = run.enc_str1 /\ run'.enc_str2 = run.enc_str2]_vars

C9_Witness ==
    /\ Len(log) = MaxOps
    /\ log[1] = "concat"
    /\ log[MaxOps] = "to_lower"
    /\ run.op \in ReadOnlyOps
    /\ Len(run.string1) = MaxLen

(***************************************************************************)
(* C10.  Two runs of the same operator on operands of the same slot counts *)
(* (and patterns of the same length) make the same engine calls in the     *)
(* same order and take the same return path, whatever the hidden bytes.    *)
(***************************************************************************)
C10_Oblivious ==
    /\ run.op = twin.op
    /\ run.res.trace = twin.res.trace
    /\ run.res.path = twin.res.path
    /\ Len(run.enc_str1) = Len(twin.enc_str1)

C10_Witness ==
    /\ run.op = "starts_with_plain"
    /\ run.res.val # twin.res.val
    /\ run.res.path = "res"
    /\ Len(run.res.accs) >= 1

====
